---- MODULE Spec2Model ----
(***************************************************************************)
(* Model of the BadgerDB buffer manager (BufMgr/src/buffer.cpp): the frame *)
(* descriptor table, the (file, pageNo) -> frame hash table, the clock     *)
(* replacement sweep, and the public operations readPage, unPinPage,       *)
(* allocPage, flushFile, disposePage and the destructor.                   *)
(***************************************************************************)
EXTENDS Integers, Sequences, FiniteSets, TLC

\* ---------------------------------------------------------------- bounds
numBufs == 2          \* constructor argument bufs
MaxPage == 2          \* page numbers a file can hand out: 1..MaxPage
MaxPin  == 2          \* cap on pinCnt (readPage hits are not taken above it)

Files   == {"F1", "F2"}
NULL    == "NULL"
Frames  == 0 .. (numBufs - 1)
PageIds == 1 .. MaxPage
Keys    == Files \X PageIds

\* the page numbers a file can hand out: the first file up to MaxPage pages,
\* every other file a single page
PagesOf(file) == IF file = "F1" THEN PageIds ELSE {1}

INVALID_NUMBER == 0   \* Page::INVALID_NUMBER, the page number of an empty Page

\* bufDescTable  frame -> descriptor (BufDesc)
\* bufPool       frame -> the Page in the slot: its page_number() and, as its
\*               contents, the file whose page of that number they are
\* hashTable     (file, pageNo) -> frame, on the keys it holds
\* clockHand     the clock hand
\* filePages     file -> the page numbers allocated in it
\* alive         the buffer manager has not been destroyed
\* last          outcome of the last operation
\* rt            progress of the alloc / unpin / flush / read sequence
\* bal           frame -> pins handed out minus unpins accepted on the frame
\*               since a page was last loaded or allocated into it
VARIABLES bufDescTable, bufPool, hashTable, clockHand,
          filePages, alive, last, rt, bal

vars == <<bufDescTable, bufPool, hashTable, clockHand,
          filePages, alive, last, rt, bal>>

\* ------------------------------------------------------- frame descriptors
\* BufDesc::Set
Set(file, pageNo) ==
    [file |-> file, pageNo |-> pageNo, pinCnt |-> 1,
     dirty |-> FALSE, valid |-> TRUE, refbit |-> TRUE]

\* BufDesc::Clear
Clear ==
    [file |-> NULL, pageNo |-> INVALID_NUMBER, pinCnt |-> 0,
     dirty |-> FALSE, valid |-> FALSE, refbit |-> FALSE]

\* ------------------------------------------------------------- hash table
\* BufHashTbl::lookup: is the key present
lookup(ht, file, pageNo) == <<file, pageNo>> \in DOMAIN ht

\* BufHashTbl::insert (the caller has checked that the key is absent)
insert(ht, file, pageNo, frameNo) ==
    [k \in (DOMAIN ht) \cup {<<file, pageNo>>} |->
        IF k = <<file, pageNo>> THEN frameNo ELSE ht[k]]

\* BufHashTbl::remove (the caller has checked that the key is present)
remove(ht, file, pageNo) ==
    [k \in (DOMAIN ht) \ {<<file, pageNo>>} |-> ht[k]]

\* ------------------------------------------------------------------- File
\* events of one operation, in the order they happen
Ev(e, file, pageNo, frame) == [e |-> e, file |-> file, pageNo |-> pageNo, frame |-> frame]

\* file->writePage(bufPool[frame]): the page is stored under its own page_number()
writePage(file, page, frame) == Ev("write", file, page.num, frame)

\* File::readPage: the stored page of that number
readFilePage(file, pageNo) == [num |-> pageNo, src |-> file]

\* File::allocatePage: an initialized page with the new number
allocatePage(file, pageNo) == [num |-> pageNo, src |-> file]

\* BufMgr::advanceClock
advanceClock(hand) == (hand + 1) % numBufs

\* ---------------------------------------------------------------- allocBuf
\* The sweep of allocBuf. s carries the state the loop works on:
\*   desc, ht, hand       the descriptor table, hash table, clock hand
\*   pinned               numPinnedPages
\*   adv                  advances of the clock hand made by this call
\*   out                  "frame" (returned a frame), "BufferExceeded" (threw),
\*                        "HashFault" (printed a hash table fault and returned
\*                        without assigning frame), "diverged" (still looping
\*                        after SweepFuel advances)
SweepFuel == 4 * numBufs

\* allocBuf sweep that writes a dirty victim back only after it has removed
\* the hash table entry and cleared the descriptor
RECURSIVE allocBufLoopWriteLast(_, _)
allocBufLoopWriteLast(s, pool) ==
    IF s.adv >= SweepFuel THEN [s EXCEPT !.out = "diverged"]
    ELSE
    LET h  == advanceClock(s.hand)
        d  == s.desc[h]
        s1 == [s EXCEPT !.hand = h, !.adv = @ + 1]
    IN  IF d.valid
        THEN IF ~d.refbit
             THEN IF d.pinCnt = 0
                  THEN IF d.dirty
                       THEN IF lookup(s1.ht, d.file, d.pageNo)
                            THEN [s1 EXCEPT
                                    !.ht = remove(@, d.file, d.pageNo),
                                    !.desc = [@ EXCEPT ![h] = Clear],
                                    !.ev = @ \o <<Ev("remove", d.file, d.pageNo, h),
                                                  Ev("clear", d.file, d.pageNo, h),
                                                  writePage(d.file, pool[h], h)>>,
                                    !.frame = h, !.out = "frame"]
                            ELSE [s1 EXCEPT !.out = "HashFault"]
                       ELSE [s1 EXCEPT
                               !.desc = [@ EXCEPT ![h] = Clear],
                               !.ev = Append(@, Ev("clear", d.file, d.pageNo, h)),
                               !.frame = h, !.out = "frame"]
                  ELSE IF d.pinCnt > 0
                       THEN IF s1.pinned + 1 = numBufs
                            THEN [s1 EXCEPT !.pinned = @ + 1, !.out = "BufferExceeded"]
                            ELSE allocBufLoopWriteLast([s1 EXCEPT !.pinned = @ + 1], pool)
                       ELSE allocBufLoopWriteLast(s1, pool)
             ELSE allocBufLoopWriteLast([s1 EXCEPT !.desc = [@ EXCEPT ![h].refbit = FALSE]], pool)
        ELSE [s1 EXCEPT
                !.desc = [@ EXCEPT ![h] = Set(d.file, d.pageNo)],
                !.ev = Append(@, Ev("set", d.file, d.pageNo, h)),
                !.frame = h, !.out = "frame"]

\* allocBuf sweep that passes a pinned frame without counting it
RECURSIVE allocBufLoopNoCount(_, _)
allocBufLoopNoCount(s, pool) ==
    IF s.adv >= SweepFuel THEN [s EXCEPT !.out = "diverged"]
    ELSE
    LET h  == advanceClock(s.hand)
        d  == s.desc[h]
        s1 == [s EXCEPT !.hand = h, !.adv = @ + 1]
    IN  IF d.valid
        THEN IF ~d.refbit
             THEN IF d.pinCnt = 0
                  THEN IF d.dirty
                       THEN LET s2 == [s1 EXCEPT
                                         !.ev = Append(@, writePage(d.file, pool[h], h))]
                            IN  IF lookup(s2.ht, d.file, d.pageNo)
                                THEN [s2 EXCEPT
                                        !.ht = remove(@, d.file, d.pageNo),
                                        !.desc = [@ EXCEPT ![h] = Clear],
                                        !.ev = @ \o <<Ev("remove", d.file, d.pageNo, h),
                                                      Ev("clear", d.file, d.pageNo, h)>>,
                                        !.frame = h, !.out = "frame"]
                                ELSE [s2 EXCEPT !.out = "HashFault"]
                       ELSE [s1 EXCEPT
                               !.desc = [@ EXCEPT ![h] = Clear],
                               !.ev = Append(@, Ev("clear", d.file, d.pageNo, h)),
                               !.frame = h, !.out = "frame"]
                  ELSE IF d.pinCnt > 0
                       THEN IF s1.pinned = numBufs
                            THEN [s1 EXCEPT !.out = "BufferExceeded"]
                            ELSE allocBufLoopNoCount(s1, pool)
                       ELSE allocBufLoopNoCount(s1, pool)
             ELSE allocBufLoopNoCount([s1 EXCEPT !.desc = [@ EXCEPT ![h].refbit = FALSE]], pool)
        ELSE [s1 EXCEPT
                !.desc = [@ EXCEPT ![h] = Set(d.file, d.pageNo)],
                !.ev = Append(@, Ev("set", d.file, d.pageNo, h)),
                !.frame = h, !.out = "frame"]

RECURSIVE allocBufLoop(_, _)
allocBufLoop(s, pool) ==
    IF s.adv >= SweepFuel THEN [s EXCEPT !.out = "diverged"]
    ELSE
    LET h  == advanceClock(s.hand)
        d  == s.desc[h]
        s1 == [s EXCEPT !.hand = h, !.adv = @ + 1]
    IN  IF d.valid
        THEN IF ~d.refbit
             THEN IF d.pinCnt = 0
                  THEN IF d.dirty
                       THEN LET s2 == [s1 EXCEPT
                                         !.ev = Append(@, writePage(d.file, pool[h], h))]
                            IN  IF lookup(s2.ht, d.file, d.pageNo)
                                THEN [s2 EXCEPT
                                        !.ht = remove(@, d.file, d.pageNo),
                                        !.desc = [@ EXCEPT ![h] = Clear],
                                        !.ev = @ \o <<Ev("remove", d.file, d.pageNo, h),
                                                      Ev("clear", d.file, d.pageNo, h)>>,
                                        !.frame = h, !.out = "frame"]
                                ELSE [s2 EXCEPT !.out = "HashFault"]
                       ELSE [s1 EXCEPT
                               !.desc = [@ EXCEPT ![h] = Clear],
                               !.ev = Append(@, Ev("clear", d.file, d.pageNo, h)),
                               !.frame = h, !.out = "frame"]
                  ELSE IF d.pinCnt > 0
                       THEN IF s1.pinned + 1 = numBufs
                            THEN [s1 EXCEPT !.pinned = @ + 1, !.out = "BufferExceeded"]
                            ELSE allocBufLoop([s1 EXCEPT !.pinned = @ + 1], pool)
                       ELSE allocBufLoop(s1, pool)
             ELSE allocBufLoop([s1 EXCEPT !.desc = [@ EXCEPT ![h].refbit = FALSE]], pool)
        ELSE [s1 EXCEPT
                !.desc = [@ EXCEPT ![h] = Set(d.file, d.pageNo)],
                !.ev = Append(@, Ev("set", d.file, d.pageNo, h)),
                !.frame = h, !.out = "frame"]

\* BufMgr::allocBuf on the given state
allocBuf(desc, ht, hand, pool) ==
    allocBufLoop([desc |-> desc, ht |-> ht, hand |-> hand,
                  pinned |-> 0, adv |-> 0, ev |-> <<>>,
                  frame |-> numBufs, out |-> "running"], pool)

\* the values the caller's uninitialised FrameId can have after allocBuf
\* returned without assigning it
FrameOut(r) == IF r.out = "HashFault" THEN Frames ELSE {r.frame}

\* ------------------------------------------------ outcome of an operation
\* What the last public operation did, as its caller and the File saw it:
\*   err       the exception that left the operation ("none": normal return)
\*   errFrame  the frame the exception names (numBufs: none)
\*   page      the frame whose slot was handed back in `page` (numBufs: none)
\*   hit       the hash table lookup of the operation found the key
\*   diag      the fault printed to std::cerr by a catch block ("none": nothing)
\*   adv       advances of the clock hand made by allocBuf
\*   ev        File and bookkeeping events, in order
Outcome(op, file, pageNo, dirty, err, errFrame, page, hit, diag, adv, ev) ==
    [op |-> op, file |-> file, pageNo |-> pageNo, dirty |-> dirty,
     err |-> err, errFrame |-> errFrame, page |-> page, hit |-> hit,
     diag |-> diag, adv |-> adv, ev |-> ev]

NoOp(op, file, pageNo, dirty) ==
    Outcome(op, file, pageNo, dirty, "none", numBufs, numBufs, FALSE, "none", 0, <<>>)

NoRoundTrip ==
    [phase |-> 0, file |-> NULL, pageNo |-> INVALID_NUMBER,
     page |-> [num |-> INVALID_NUMBER, src |-> NULL]]

\* Progress of the sequence allocPage(F) -> p; unPinPage(F, p, false);
\* flushFile(F); readPage(F, p), each step succeeding and directly following
\* the previous one. phase = number of steps of the sequence done so far.
RoundTrip(r, l, pool) ==
    IF l.op = "allocPage" /\ l.file # NULL /\ l.err = "none" /\ l.page # numBufs
    THEN [phase |-> 1, file |-> l.file, pageNo |-> l.pageNo, page |-> pool[l.page]]
    ELSE IF r.phase = 1 /\ l.op = "unPinPage" /\ l.file = r.file /\ l.pageNo = r.pageNo
            /\ ~l.dirty /\ l.err = "none"
    THEN [r EXCEPT !.phase = 2]
    ELSE IF r.phase = 2 /\ l.op = "flushFile" /\ l.file = r.file /\ l.err = "none"
    THEN [r EXCEPT !.phase = 3]
    ELSE IF r.phase = 3 /\ l.op = "readPage" /\ l.file = r.file /\ l.pageNo = r.pageNo
            /\ l.err = "none" /\ l.page # numBufs
    THEN [r EXCEPT !.phase = 4]
    ELSE NoRoundTrip

\* Pin / unpin account of the frames, kept from what the callers see. For a
\* frame i, with l the outcome of the step and ht, desc the hash table and
\* descriptors before it:
\*   a page loaded or allocated into i (hash table insert for i): 1, the pin
\*     the call hands out;
\*   i cleared (evicted, flushed, disposed): 0;
\*   a readPage hit that hands back the valid frame i: one more;
\*   an unPinPage that returns normally for a page whose entry names the valid
\*     frame i: one less.
Balance(b, l, ht, desc) ==
    [i \in Frames |->
        IF \E n \in DOMAIN l.ev : l.ev[n].e = "insert" /\ l.ev[n].frame = i
        THEN 1
        ELSE IF \E n \in DOMAIN l.ev : l.ev[n].e = "clear" /\ l.ev[n].frame = i
        THEN 0
        ELSE IF l.op = "readPage" /\ l.hit /\ l.page = i /\ desc[i].valid
        THEN b[i] + 1
        ELSE IF l.op = "unPinPage" /\ l.hit /\ l.err = "none" /\ desc[i].valid
                /\ ht[<<l.file, l.pageNo>>] = i
        THEN b[i] - 1
        ELSE b[i]]

\* Every operation is called with a file that is not null (a null file makes
\* each of them return at once), and readPage and disposePage with a page the
\* file holds (File::readPage and File::deletePage fail on any other).

\* ------------------------------------------------------------ construction
\* BufMgr::BufMgr; the files start empty
Init ==
    /\ bufDescTable = [i \in Frames |-> Clear]
    /\ bufPool = [i \in Frames |-> [num |-> INVALID_NUMBER, src |-> NULL]]
    /\ hashTable = <<>>
    /\ clockHand = numBufs - 1
    /\ filePages = [f \in Files |-> {}]
    /\ alive = TRUE
    /\ last = NoOp("BufMgr", NULL, INVALID_NUMBER, FALSE)
    /\ rt = NoRoundTrip
    /\ bal = [i \in Frames |-> 0]

\* readPage whose miss path loads the page and sets the descriptor but leaves
\* the hash table without the entry of the page
readPageNoInsert(file, pageNo) ==
    /\ alive
    /\ pageNo \in filePages[file]
    /\    IF lookup(hashTable, file, pageNo)
          THEN LET frameNo == hashTable[<<file, pageNo>>] IN
               /\ bufDescTable[frameNo].pinCnt < MaxPin
               /\ bufDescTable' = [bufDescTable EXCEPT ![frameNo].refbit = TRUE,
                                                       ![frameNo].pinCnt = @ + 1]
               /\ last' = Outcome("readPage", file, pageNo, FALSE, "none", numBufs,
                                  frameNo, TRUE, "none", 0, <<>>)
               /\ UNCHANGED <<bufPool, hashTable, clockHand>>
          ELSE LET r == allocBuf(bufDescTable, hashTable, clockHand, bufPool) IN
               IF r.out \in {"BufferExceeded", "diverged"}
               THEN \* BufferExceededException is caught, printed, and readPage returns
                    /\ bufDescTable' = r.desc
                    /\ clockHand' = r.hand
                    /\ last' = Outcome("readPage", file, pageNo, FALSE, "none", numBufs,
                                       numBufs, FALSE, r.out, r.adv, r.ev)
                    /\ UNCHANGED <<bufPool, hashTable>>
               ELSE \E frameNo \in FrameOut(r) :
                    /\ bufPool' = [bufPool EXCEPT ![frameNo] = readFilePage(file, pageNo)]
                    /\ clockHand' = r.hand
                    /\ IF lookup(r.ht, file, pageNo)
                       THEN \* HashAlreadyPresentException is caught and printed
                            /\ hashTable' = r.ht
                            /\ bufDescTable' = r.desc
                            /\ last' = Outcome("readPage", file, pageNo, FALSE, "none",
                                   numBufs, numBufs, FALSE, "HashAlreadyPresent", r.adv,
                                   Append(r.ev, Ev("read", file, pageNo, frameNo)))
                       ELSE /\ hashTable' = r.ht
                            /\ bufDescTable' = [r.desc EXCEPT ![frameNo] = Set(file, pageNo)]
                            /\ last' = Outcome("readPage", file, pageNo, FALSE, "none",
                                   numBufs, frameNo, FALSE,
                                   IF r.out = "HashFault" THEN r.out ELSE "none", r.adv,
                                   r.ev \o <<Ev("read", file, pageNo, frameNo),
                                             Ev("set", file, pageNo, frameNo)>>)
    /\ rt' = RoundTrip(rt, last', bufPool')
    /\ bal' = Balance(bal, last', hashTable, bufDescTable)
    /\ UNCHANGED <<filePages, alive>>

\* ---------------------------------------------------------------- readPage
readPage(file, pageNo) ==
    /\ alive
    /\ pageNo \in filePages[file]
    /\    IF lookup(hashTable, file, pageNo)
          THEN LET frameNo == hashTable[<<file, pageNo>>] IN
               /\ bufDescTable[frameNo].pinCnt < MaxPin
               /\ bufDescTable' = [bufDescTable EXCEPT ![frameNo].refbit = TRUE,
                                                       ![frameNo].pinCnt = @ + 1]
               /\ last' = Outcome("readPage", file, pageNo, FALSE, "none", numBufs,
                                  frameNo, TRUE, "none", 0, <<>>)
               /\ UNCHANGED <<bufPool, hashTable, clockHand>>
          ELSE LET r == allocBuf(bufDescTable, hashTable, clockHand, bufPool) IN
               IF r.out \in {"BufferExceeded", "diverged"}
               THEN \* BufferExceededException is caught, printed, and readPage returns
                    /\ bufDescTable' = r.desc
                    /\ clockHand' = r.hand
                    /\ last' = Outcome("readPage", file, pageNo, FALSE, "none", numBufs,
                                       numBufs, FALSE, r.out, r.adv, r.ev)
                    /\ UNCHANGED <<bufPool, hashTable>>
               ELSE \E frameNo \in FrameOut(r) :
                    /\ bufPool' = [bufPool EXCEPT ![frameNo] = readFilePage(file, pageNo)]
                    /\ clockHand' = r.hand
                    /\ IF lookup(r.ht, file, pageNo)
                       THEN \* HashAlreadyPresentException is caught and printed
                            /\ hashTable' = r.ht
                            /\ bufDescTable' = r.desc
                            /\ last' = Outcome("readPage", file, pageNo, FALSE, "none",
                                   numBufs, numBufs, FALSE, "HashAlreadyPresent", r.adv,
                                   Append(r.ev, Ev("read", file, pageNo, frameNo)))
                       ELSE /\ hashTable' = insert(r.ht, file, pageNo, frameNo)
                            /\ bufDescTable' = [r.desc EXCEPT ![frameNo] = Set(file, pageNo)]
                            /\ last' = Outcome("readPage", file, pageNo, FALSE, "none",
                                   numBufs, frameNo, FALSE,
                                   IF r.out = "HashFault" THEN r.out ELSE "none", r.adv,
                                   r.ev \o <<Ev("read", file, pageNo, frameNo),
                                             Ev("insert", file, pageNo, frameNo),
                                             Ev("set", file, pageNo, frameNo)>>)
    /\ rt' = RoundTrip(rt, last', bufPool')
    /\ bal' = Balance(bal, last', hashTable, bufDescTable)
    /\ UNCHANGED <<filePages, alive>>

\* unPinPage without the pinCnt > 0 test: decrements whenever the page is found
unPinPageUnchecked(file, pageNo, dirty) ==
    /\ alive
    /\ IF lookup(hashTable, file, pageNo)
       THEN LET frameNo == hashTable[<<file, pageNo>>] IN
            /\ bufDescTable' = [bufDescTable EXCEPT
                   ![frameNo].pinCnt = @ - 1,
                   ![frameNo].dirty = IF dirty THEN TRUE ELSE @]
            /\ last' = Outcome("unPinPage", file, pageNo, dirty, "none", numBufs,
                               numBufs, TRUE, "none", 0, <<>>)
       ELSE /\ UNCHANGED bufDescTable
            /\ last' = NoOp("unPinPage", file, pageNo, dirty)
    /\ rt' = RoundTrip(rt, last', bufPool)
    /\ bal' = Balance(bal, last', hashTable, bufDescTable)
    /\ UNCHANGED <<bufPool, hashTable, clockHand, filePages, alive>>

\* --------------------------------------------------------------- unPinPage
\* unPinPage that drops every pin of the page at once instead of one
unPinPageToZero(file, pageNo, dirty) ==
    /\ alive
    /\ IF lookup(hashTable, file, pageNo)
       THEN LET frameNo == hashTable[<<file, pageNo>>] IN
            IF bufDescTable[frameNo].pinCnt > 0
            THEN /\ bufDescTable' = [bufDescTable EXCEPT
                        ![frameNo].pinCnt = 0,
                        ![frameNo].dirty = IF dirty THEN TRUE ELSE @]
                 /\ last' = Outcome("unPinPage", file, pageNo, dirty, "none", numBufs,
                                    numBufs, TRUE, "none", 0, <<>>)
            ELSE IF bufDescTable[frameNo].pinCnt = 0
            THEN /\ UNCHANGED bufDescTable
                 /\ last' = Outcome("unPinPage", file, pageNo, dirty, "PageNotPinned",
                                    frameNo, numBufs, TRUE, "none", 0, <<>>)
            ELSE /\ UNCHANGED bufDescTable
                 /\ last' = Outcome("unPinPage", file, pageNo, dirty, "none", numBufs,
                                    numBufs, TRUE, "none", 0, <<>>)
       ELSE /\ UNCHANGED bufDescTable
            /\ last' = NoOp("unPinPage", file, pageNo, dirty)
    /\ rt' = RoundTrip(rt, last', bufPool)
    /\ bal' = Balance(bal, last', hashTable, bufDescTable)
    /\ UNCHANGED <<bufPool, hashTable, clockHand, filePages, alive>>

unPinPage(file, pageNo, dirty) ==
    /\ alive
    /\ IF lookup(hashTable, file, pageNo)
       THEN LET frameNo == hashTable[<<file, pageNo>>] IN
            IF bufDescTable[frameNo].pinCnt > 0
            THEN /\ bufDescTable' = [bufDescTable EXCEPT
                        ![frameNo].pinCnt = @ - 1,
                        ![frameNo].dirty = IF dirty THEN TRUE ELSE @]
                 /\ last' = Outcome("unPinPage", file, pageNo, dirty, "none", numBufs,
                                    numBufs, TRUE, "none", 0, <<>>)
            ELSE IF bufDescTable[frameNo].pinCnt = 0
            THEN /\ UNCHANGED bufDescTable
                 /\ last' = Outcome("unPinPage", file, pageNo, dirty, "PageNotPinned",
                                    frameNo, numBufs, TRUE, "none", 0, <<>>)
            ELSE /\ UNCHANGED bufDescTable
                 /\ last' = Outcome("unPinPage", file, pageNo, dirty, "none", numBufs,
                                    numBufs, TRUE, "none", 0, <<>>)
       ELSE /\ UNCHANGED bufDescTable
            /\ last' = NoOp("unPinPage", file, pageNo, dirty)
    /\ rt' = RoundTrip(rt, last', bufPool)
    /\ bal' = Balance(bal, last', hashTable, bufDescTable)
    /\ UNCHANGED <<bufPool, hashTable, clockHand, filePages, alive>>

\* flushFile scan that clears the frames but leaves their hash table entries
RECURSIVE flushLoopKeepEntry(_, _, _, _)
flushLoopKeepEntry(s, pool, file, i) ==
    IF i >= numBufs THEN [s EXCEPT !.out = "done"]
    ELSE
    LET d == s.desc[i] IN
    IF d.file = file
    THEN IF d.valid
         THEN IF d.pinCnt > 0
              THEN [s EXCEPT !.out = "PagePinned", !.frame = i]
              ELSE LET s1 == IF d.dirty
                             THEN [s EXCEPT
                                     !.desc = [@ EXCEPT ![i].dirty = FALSE],
                                     !.ev = Append(@, writePage(d.file, pool[i], i))]
                             ELSE s
                   IN  flushLoopKeepEntry([s1 EXCEPT
                                             !.desc = [@ EXCEPT ![i] = Clear],
                                             !.ev = Append(@, Ev("clear", file, d.pageNo, i))],
                                          pool, file, i + 1)
         ELSE [s EXCEPT !.out = "BadBuffer", !.frame = i]
    ELSE flushLoopKeepEntry(s, pool, file, i + 1)

\* flushFile scan that passes over a pinned frame instead of throwing
RECURSIVE flushLoopSkipPinned(_, _, _, _)
flushLoopSkipPinned(s, pool, file, i) ==
    IF i >= numBufs THEN [s EXCEPT !.out = "done"]
    ELSE
    LET d == s.desc[i] IN
    IF d.file = file
    THEN IF d.valid
         THEN IF d.pinCnt > 0
              THEN flushLoopSkipPinned(s, pool, file, i + 1)
              ELSE LET s1 == IF d.dirty
                             THEN [s EXCEPT
                                     !.desc = [@ EXCEPT ![i].dirty = FALSE],
                                     !.ev = Append(@, writePage(d.file, pool[i], i))]
                             ELSE s
                   IN  IF lookup(s1.ht, file, d.pageNo)
                       THEN flushLoopSkipPinned([s1 EXCEPT
                                         !.ht = remove(@, file, d.pageNo),
                                         !.desc = [@ EXCEPT ![i] = Clear],
                                         !.ev = @ \o <<Ev("remove", file, d.pageNo, i),
                                                       Ev("clear", file, d.pageNo, i)>>],
                                      pool, file, i + 1)
                       ELSE [s1 EXCEPT !.out = "HashFault"]
         ELSE [s EXCEPT !.out = "BadBuffer", !.frame = i]
    ELSE flushLoopSkipPinned(s, pool, file, i + 1)

\* --------------------------------------------------------------- flushFile
\* The scan of flushFile from frame i on. s.out: "running", "done" (loop
\* ended), "PagePinned" / "BadBuffer" (threw, s.frame names the frame),
\* "HashFault" (hash table fault printed, returned).
RECURSIVE flushLoop(_, _, _, _)
flushLoop(s, pool, file, i) ==
    IF i >= numBufs THEN [s EXCEPT !.out = "done"]
    ELSE
    LET d == s.desc[i] IN
    IF d.file = file
    THEN IF d.valid
         THEN IF d.pinCnt > 0
              THEN [s EXCEPT !.out = "PagePinned", !.frame = i]
              ELSE LET s1 == IF d.dirty
                             THEN [s EXCEPT
                                     !.desc = [@ EXCEPT ![i].dirty = FALSE],
                                     !.ev = Append(@, writePage(d.file, pool[i], i))]
                             ELSE s
                   IN  IF lookup(s1.ht, file, d.pageNo)
                       THEN flushLoop([s1 EXCEPT
                                         !.ht = remove(@, file, d.pageNo),
                                         !.desc = [@ EXCEPT ![i] = Clear],
                                         !.ev = @ \o <<Ev("remove", file, d.pageNo, i),
                                                       Ev("clear", file, d.pageNo, i)>>],
                                      pool, file, i + 1)
                       ELSE [s1 EXCEPT !.out = "HashFault"]
         ELSE [s EXCEPT !.out = "BadBuffer", !.frame = i]
    ELSE flushLoop(s, pool, file, i + 1)

flushFile(file) ==
    /\ alive
    /\ LET r == flushLoop([desc |-> bufDescTable, ht |-> hashTable,
                            ev |-> <<>>, frame |-> numBufs, out |-> "running"],
                           bufPool, file, 0)
       IN       /\ bufDescTable' = r.desc
                /\ hashTable' = r.ht
                /\ last' = Outcome("flushFile", file, INVALID_NUMBER, FALSE,
                              IF r.out \in {"PagePinned", "BadBuffer"} THEN r.out ELSE "none",
                              r.frame, numBufs, FALSE,
                              IF r.out = "HashFault" THEN r.out ELSE "none", 0, r.ev)
    /\ rt' = RoundTrip(rt, last', bufPool)
    /\ bal' = Balance(bal, last', hashTable, bufDescTable)
    /\ UNCHANGED <<bufPool, clockHand, filePages, alive>>

\* allocPage that obtains the frame first and asks the file for a page only
\* once allocBuf has returned one
allocPageBufFirst(file) ==
    /\ alive
    /\      \E pageNo \in PagesOf(file) \ filePages[file] :
            LET new_page == allocatePage(file, pageNo)
                r == allocBuf(bufDescTable, hashTable, clockHand, bufPool)
            IN  /\ filePages' = IF r.out \in {"BufferExceeded", "diverged"}
                                THEN filePages
                                ELSE [filePages EXCEPT ![file] = @ \cup {pageNo}]
                /\ clockHand' = r.hand
                /\ IF r.out \in {"BufferExceeded", "diverged"}
                   THEN \* the exception of allocBuf leaves allocPage
                        /\ bufDescTable' = r.desc
                        /\ last' = Outcome("allocPage", file, pageNo, FALSE, r.out, numBufs,
                                           numBufs, FALSE, "none", r.adv, r.ev)
                        /\ UNCHANGED <<bufPool, hashTable>>
                   ELSE \E frameNo \in FrameOut(r) :
                        /\ bufPool' = [bufPool EXCEPT ![frameNo] = new_page]
                        /\ IF lookup(r.ht, file, pageNo)
                           THEN \* HashAlreadyPresentException is caught and printed
                                /\ hashTable' = r.ht
                                /\ bufDescTable' = r.desc
                                /\ last' = Outcome("allocPage", file, pageNo, FALSE, "none",
                                       numBufs, numBufs, TRUE, "HashAlreadyPresent", r.adv,
                                       <<Ev("allocate", file, pageNo, numBufs)>> \o r.ev)
                           ELSE /\ hashTable' = insert(r.ht, file, pageNo, frameNo)
                                /\ bufDescTable' = [r.desc EXCEPT ![frameNo] = Set(file, pageNo)]
                                /\ last' = Outcome("allocPage", file, pageNo, FALSE, "none",
                                       numBufs, frameNo, FALSE,
                                       IF r.out = "HashFault" THEN r.out ELSE "none", r.adv,
                                       <<Ev("allocate", file, pageNo, numBufs)>> \o r.ev
                                          \o <<Ev("insert", file, pageNo, frameNo),
                                               Ev("set", file, pageNo, frameNo)>>)
    /\ rt' = RoundTrip(rt, last', bufPool')
    /\ bal' = Balance(bal, last', hashTable, bufDescTable)
    /\ UNCHANGED alive

\* --------------------------------------------------------------- allocPage
\* File::allocatePage hands out a page number the file does not hold, and
\* stores the initialized page under it.
allocPage(file) ==
    /\ alive
    /\      \E pageNo \in PagesOf(file) \ filePages[file] :
            LET new_page == allocatePage(file, pageNo)
                r == allocBuf(bufDescTable, hashTable, clockHand, bufPool)
            IN  /\ filePages' = [filePages EXCEPT ![file] = @ \cup {pageNo}]
                /\ clockHand' = r.hand
                /\ IF r.out \in {"BufferExceeded", "diverged"}
                   THEN \* the exception of allocBuf leaves allocPage
                        /\ bufDescTable' = r.desc
                        /\ last' = Outcome("allocPage", file, pageNo, FALSE, r.out, numBufs,
                                           numBufs, FALSE, "none", r.adv,
                                           <<Ev("allocate", file, pageNo, numBufs)>> \o r.ev)
                        /\ UNCHANGED <<bufPool, hashTable>>
                   ELSE \E frameNo \in FrameOut(r) :
                        /\ bufPool' = [bufPool EXCEPT ![frameNo] = new_page]
                        /\ IF lookup(r.ht, file, pageNo)
                           THEN \* HashAlreadyPresentException is caught and printed
                                /\ hashTable' = r.ht
                                /\ bufDescTable' = r.desc
                                /\ last' = Outcome("allocPage", file, pageNo, FALSE, "none",
                                       numBufs, numBufs, TRUE, "HashAlreadyPresent", r.adv,
                                       <<Ev("allocate", file, pageNo, numBufs)>> \o r.ev)
                           ELSE /\ hashTable' = insert(r.ht, file, pageNo, frameNo)
                                /\ bufDescTable' = [r.desc EXCEPT ![frameNo] = Set(file, pageNo)]
                                /\ last' = Outcome("allocPage", file, pageNo, FALSE, "none",
                                       numBufs, frameNo, FALSE,
                                       IF r.out = "HashFault" THEN r.out ELSE "none", r.adv,
                                       <<Ev("allocate", file, pageNo, numBufs)>> \o r.ev
                                          \o <<Ev("insert", file, pageNo, frameNo),
                                               Ev("set", file, pageNo, frameNo)>>)
    /\ rt' = RoundTrip(rt, last', bufPool')
    /\ bal' = Balance(bal, last', hashTable, bufDescTable)
    /\ UNCHANGED alive

\* disposePage that marks the frame invalid and unpinned but leaves the file
\* and page number of the descriptor as they were
disposePageInvalidate(file, PageNo) ==
    /\ alive
    /\ PageNo \in filePages[file]
    /\    IF lookup(hashTable, file, PageNo)
          THEN LET frameNo == hashTable[<<file, PageNo>>] IN
               /\ bufDescTable' = [bufDescTable EXCEPT
                                       ![frameNo].valid = FALSE,
                                       ![frameNo].pinCnt = 0,
                                       ![frameNo].dirty = FALSE,
                                       ![frameNo].refbit = FALSE]
               /\ hashTable' = remove(hashTable, file, PageNo)
               /\ last' = Outcome("disposePage", file, PageNo, FALSE, "none", numBufs,
                              numBufs, TRUE, "none", 0,
                              <<Ev("clear", bufDescTable[frameNo].file,
                                   bufDescTable[frameNo].pageNo, frameNo),
                                Ev("remove", file, PageNo, frameNo),
                                Ev("delete", file, PageNo, numBufs)>>)
          ELSE /\ UNCHANGED <<bufDescTable, hashTable>>
               /\ last' = Outcome("disposePage", file, PageNo, FALSE, "none", numBufs,
                              numBufs, FALSE, "none", 0,
                              <<Ev("delete", file, PageNo, numBufs)>>)
    /\ filePages' = [filePages EXCEPT ![file] = @ \ {PageNo}]
    /\ rt' = RoundTrip(rt, last', bufPool)
    /\ bal' = Balance(bal, last', hashTable, bufDescTable)
    /\ UNCHANGED <<bufPool, clockHand, alive>>

\* ------------------------------------------------------------- disposePage
\* File::deletePage succeeds on the pages the file holds.
disposePage(file, PageNo) ==
    /\ alive
    /\ PageNo \in filePages[file]
    /\    IF lookup(hashTable, file, PageNo)
          THEN LET frameNo == hashTable[<<file, PageNo>>] IN
               /\ bufDescTable' = [bufDescTable EXCEPT ![frameNo] = Clear]
               /\ hashTable' = remove(hashTable, file, PageNo)
               /\ last' = Outcome("disposePage", file, PageNo, FALSE, "none", numBufs,
                              numBufs, TRUE, "none", 0,
                              <<Ev("clear", bufDescTable[frameNo].file,
                                   bufDescTable[frameNo].pageNo, frameNo),
                                Ev("remove", file, PageNo, frameNo),
                                Ev("delete", file, PageNo, numBufs)>>)
          ELSE /\ UNCHANGED <<bufDescTable, hashTable>>
               /\ last' = Outcome("disposePage", file, PageNo, FALSE, "none", numBufs,
                              numBufs, FALSE, "none", 0,
                              <<Ev("delete", file, PageNo, numBufs)>>)
    /\ filePages' = [filePages EXCEPT ![file] = @ \ {PageNo}]
    /\ rt' = RoundTrip(rt, last', bufPool)
    /\ bal' = Balance(bal, last', hashTable, bufDescTable)
    /\ UNCHANGED <<bufPool, clockHand, alive>>

\* ------------------------------------------------------------- destruction
\* destroyLoop with the write-back kept for frames nobody has pinned
RECURSIVE destroyLoopSkipPinned(_, _, _)
destroyLoopSkipPinned(s, pool, i) ==
    IF i >= numBufs THEN s
    ELSE LET d == s.desc[i] IN
         IF d.valid /\ d.dirty /\ d.pinCnt = 0
         THEN destroyLoopSkipPinned([s EXCEPT
                             !.desc = [@ EXCEPT ![i].dirty = FALSE],
                             !.ev = Append(@, writePage(d.file, pool[i], i))],
                          pool, i + 1)
         ELSE destroyLoopSkipPinned(s, pool, i + 1)

RECURSIVE destroyLoop(_, _, _)
destroyLoop(s, pool, i) ==
    IF i >= numBufs THEN s
    ELSE LET d == s.desc[i] IN
         IF d.valid /\ d.dirty
         THEN destroyLoop([s EXCEPT
                             !.desc = [@ EXCEPT ![i].dirty = FALSE],
                             !.ev = Append(@, writePage(d.file, pool[i], i))],
                          pool, i + 1)
         ELSE destroyLoop(s, pool, i + 1)

\* BufMgr::~BufMgr
Destroy ==
    /\ alive
    /\ LET r == destroyLoop([desc |-> bufDescTable, ev |-> <<>>], bufPool, 0)
       IN  /\ bufDescTable' = r.desc
           /\ last' = Outcome("~BufMgr", NULL, INVALID_NUMBER, FALSE, "none", numBufs,
                              numBufs, FALSE, "none", 0, r.ev)
    /\ alive' = FALSE
    /\ rt' = RoundTrip(rt, last', bufPool)
    /\ bal' = Balance(bal, last', hashTable, bufDescTable)
    /\ UNCHANGED <<bufPool, hashTable, clockHand, filePages>>

Next ==
    \/ \E file \in Files, pageNo \in PageIds : readPage(file, pageNo)
    \/ \E file \in Files, pageNo \in PageIds, dirty \in BOOLEAN :
          unPinPage(file, pageNo, dirty)
    \/ \E file \in Files : flushFile(file)
    \/ \E file \in Files : allocPage(file)
    \/ \E file \in Files, pageNo \in PageIds : disposePage(file, pageNo)
    \/ Destroy

Spec == Init /\ [][Next]_vars

\* ------------------------------------------------------------ type sanity
TypeOK ==
    /\ clockHand \in Frames
    /\ \A i \in Frames : bufDescTable[i].pinCnt \in 0 .. MaxPin
    /\ DOMAIN hashTable \subseteq Keys
    /\ \A k \in DOMAIN hashTable : hashTable[k] \in Frames
    /\ last.diag \in {"none", "BufferExceeded"}

\* ================================================================= claims
\* every frame of the pool is valid and pinned
AllPinned(desc) == \A i \in Frames : desc[i].valid /\ desc[i].pinCnt > 0

\* the positions in ev of the writePage calls for page pageNo of file
WritesOf(ev, file, pageNo) ==
    {n \in DOMAIN ev : ev[n].e = "write" /\ ev[n].file = file /\ ev[n].pageNo = pageNo}

\* the step just taken ran allocBuf and allocBuf threw BufferExceededException
AllocBufThrew(l) ==
    /\ l.op \in {"readPage", "allocPage"}
    /\ (l.err = "BufferExceeded" \/ l.diag = "BufferExceeded")

\* C1: a readPage(F, p) that hands back a page hands back the slot of a valid
\* frame whose descriptor and contents are those of (F, p), pinned (pinCnt >= 1)
\* and with refbit set.
C1_ReadPageHandsBackThePage ==
    (last.op = "readPage" /\ last.page # numBufs) =>
        /\ bufDescTable[last.page].valid
        /\ bufDescTable[last.page].file = last.file
        /\ bufDescTable[last.page].pageNo = last.pageNo
        /\ bufDescTable[last.page].pinCnt >= 1
        /\ bufDescTable[last.page].refbit
        /\ bufPool[last.page] = [num |-> last.pageNo, src |-> last.file]

\* C2: between operations the hash table and the frame table agree: every valid
\* frame holding (file, pageNo) has the entry (file, pageNo) -> its frame, and
\* every entry points to a valid frame holding exactly that (file, pageNo).
C2_IndexAgreesWithFrames ==
    /\ \A i \in Frames : bufDescTable[i].valid =>
          /\ lookup(hashTable, bufDescTable[i].file, bufDescTable[i].pageNo)
          /\ hashTable[<<bufDescTable[i].file, bufDescTable[i].pageNo>>] = i
    /\ \A k \in DOMAIN hashTable :
          /\ bufDescTable[hashTable[k]].valid
          /\ bufDescTable[hashTable[k]].file = k[1]
          /\ bufDescTable[hashTable[k]].pageNo = k[2]

\* C3: a valid frame with pinCnt > 0 is still valid and still holds the same
\* (file, pageNo) after any operation other than a disposePage of that page.
C3_PinForbidsEviction ==
    [][\A i \in Frames :
          ( /\ bufDescTable[i].valid
            /\ bufDescTable[i].pinCnt > 0
            /\ ~( /\ last'.op = "disposePage"
                  /\ last'.file = bufDescTable[i].file
                  /\ last'.pageNo = bufDescTable[i].pageNo) )
          => /\ bufDescTable'[i].valid
             /\ bufDescTable'[i].file = bufDescTable[i].file
             /\ bufDescTable'[i].pageNo = bufDescTable[i].pageNo]_vars

\* C4: allocBuf throws BufferExceeded only when, at the call, every frame is
\* valid with pinCnt > 0; with a frame invalid or unpinned it returns a frame.
C4_BufferExceededOnlyWhenAllPinned ==
    [][AllocBufThrew(last') => AllPinned(bufDescTable)]_vars

\* C5: readPage of a page that is not in the hash table, called with every
\* frame valid and pinned, leaves by the exception BufferExceeded and evicts
\* nothing.
C5_ReadPageReportsBufferExceeded ==
    [][( /\ last'.op = "readPage"
         /\ ~lookup(hashTable, last'.file, last'.pageNo)
         /\ AllPinned(bufDescTable) )
       => /\ last'.err = "BufferExceeded"
          /\ last'.page = numBufs
          /\ hashTable' = hashTable
          /\ \A i \in Frames :
                /\ bufDescTable'[i].valid
                /\ bufDescTable'[i].file = bufDescTable[i].file
                /\ bufDescTable'[i].pageNo = bufDescTable[i].pageNo]_vars

\* C6: a dirty flag that is set becomes clear only in an operation that writes
\* the frame's page to its file (or disposes of that very page).
C6_DirtyClearedOnlyByWriteBack ==
    [][\A i \in Frames :
          (bufDescTable[i].dirty /\ ~bufDescTable'[i].dirty) =>
             \/ \E n \in WritesOf(last'.ev, bufDescTable[i].file, bufDescTable[i].pageNo) :
                   last'.ev[n].frame = i
             \/ /\ last'.op = "disposePage"
                /\ last'.file = bufDescTable[i].file
                /\ last'.pageNo = bufDescTable[i].pageNo]_vars

\* C7: at the end of allocPage(F) -> p; unPinPage(F, p, false); flushFile(F);
\* readPage(F, p), each step succeeding, the readPage missed in the hash table,
\* read page p from F, and handed back a page numbered p with the contents of
\* the page that was allocated.
C7_RoundTrip ==
    (rt.phase = 4) =>
        /\ last.op = "readPage"
        /\ ~last.hit
        /\ \E n \in DOMAIN last.ev :
              /\ last.ev[n].e = "read"
              /\ last.ev[n].file = rt.file
              /\ last.ev[n].pageNo = rt.pageNo
              /\ last.ev[n].frame = last.page
        /\ bufPool[last.page].num = rt.pageNo
        /\ bufPool[last.page] = rt.page
        /\ bufDescTable[last.page].file = rt.file
        /\ bufDescTable[last.page].pageNo = rt.pageNo

\* the round trip has been completed
C7_Witness == rt.phase = 4

\* what unPinPage(file, pageNo, dirty) does in the step just taken
UnPinStep ==
    LET key == <<last'.file, last'.pageNo>> IN
    IF key \in DOMAIN hashTable
    THEN LET f == hashTable[key] IN
         IF bufDescTable[f].pinCnt = 0
         THEN /\ last'.err = "PageNotPinned"
              /\ last'.errFrame = f
              /\ bufDescTable' = bufDescTable
         ELSE /\ last'.err = "none"
              /\ bufDescTable'[f].pinCnt = bufDescTable[f].pinCnt - 1
              /\ \A i \in Frames \ {f} : bufDescTable'[i] = bufDescTable[i]
    ELSE /\ last'.err = "none"
         /\ bufDescTable' = bufDescTable

\* C8: unPinPage on a page in the hash table whose frame has pinCnt = 0 fails
\* with PageNotPinned and changes nothing; with pinCnt > 0 it takes exactly one
\* from pinCnt; on a page not in the hash table it returns and changes nothing.
\* No pinCnt is ever negative.
C8_UnPinPage ==
    /\ [](\A i \in Frames : bufDescTable[i].pinCnt >= 0)
    /\ [][last'.op = "unPinPage" =>
            /\ UnPinStep
            /\ UNCHANGED <<bufPool, hashTable, clockHand, filePages>>]_vars

\* an unPinPage(.., dirty = true) has failed with PageNotPinned
C8_Witness ==
    /\ last.op = "unPinPage"
    /\ last.err = "PageNotPinned"
    /\ last.dirty
    /\ \E i \in Frames : bufDescTable[i].valid /\ ~bufDescTable[i].dirty

\* C9: after a flushFile(F) that returned, no descriptor refers to F, the hash
\* table has no key of F, every page of F that was dirty was written once, and
\* the frames and entries of the other files are as before.
C9_FlushFileEmptiesTheFile ==
    [][(last'.op = "flushFile" /\ last'.err = "none") =>
          /\ \A i \in Frames : bufDescTable'[i].file # last'.file
          /\ \A k \in DOMAIN hashTable' : k[1] # last'.file
          /\ \A i \in Frames :
                (bufDescTable[i].valid /\ bufDescTable[i].dirty
                   /\ bufDescTable[i].file = last'.file)
                => Cardinality(WritesOf(last'.ev, last'.file, bufDescTable[i].pageNo)) = 1
          /\ \A i \in Frames :
                bufDescTable[i].file # last'.file => bufDescTable'[i] = bufDescTable[i]
          /\ \A k \in DOMAIN hashTable :
                k[1] # last'.file => (k \in DOMAIN hashTable' /\ hashTable'[k] = hashTable[k])]_vars

\* the valid pinned frames of file
PinnedOf(file) ==
    {i \in Frames : bufDescTable[i].valid /\ bufDescTable[i].file = file
                    /\ bufDescTable[i].pinCnt > 0}

\* C10: flushFile(F) fails with PagePinned exactly when a valid frame of F is
\* pinned; the exception names the lowest such frame; the frames of F below it
\* were written back if dirty, removed from the hash table and cleared; that
\* frame and those above it are unchanged.
C10_FlushFilePagePinned ==
    [][last'.op = "flushFile" =>
          LET P == PinnedOf(last'.file) IN
          /\ (last'.err = "PagePinned") <=> (P # {})
          /\ P # {} =>
                LET m == CHOOSE i \in P : \A j \in P : i <= j IN
                /\ last'.errFrame = m
                /\ \A i \in Frames :
                      (i < m /\ bufDescTable[i].file = last'.file) =>
                         /\ bufDescTable'[i] = Clear
                         /\ ~lookup(hashTable', last'.file, bufDescTable[i].pageNo)
                         /\ bufDescTable[i].dirty =>
                               \E n \in WritesOf(last'.ev, last'.file, bufDescTable[i].pageNo) :
                                  last'.ev[n].frame = i
                /\ \A i \in Frames :
                      (i >= m \/ bufDescTable[i].file # last'.file) =>
                         /\ bufDescTable'[i] = bufDescTable[i]
                         /\ bufPool'[i] = bufPool[i]
                /\ \A i \in Frames : i >= m /\ bufDescTable[i].valid =>
                      LET k == <<bufDescTable[i].file, bufDescTable[i].pageNo>> IN
                      k \in DOMAIN hashTable => (k \in DOMAIN hashTable' /\ hashTable'[k] = hashTable[k])]_vars

\* flushFile has failed with PagePinned on frame 1 after writing back and
\* clearing the dirty frame 0 of the same file
C10_Witness ==
    /\ last.op = "flushFile"
    /\ last.err = "PagePinned"
    /\ last.errFrame = 1
    /\ \E n \in DOMAIN last.ev : last.ev[n].e = "write" /\ last.ev[n].frame = 0
    /\ bufDescTable[0] = Clear
    /\ bufDescTable[1].pinCnt > 0

\* the frames that are valid and dirty in desc
DirtyFrames(desc) == {i \in Frames : desc[i].valid /\ desc[i].dirty}

\* C11: the destructor writes the page of every frame that is valid and dirty
\* to the frame's file exactly once, pinned or not, and writes nothing for a
\* frame that is clean or invalid.
C11_DestructorWritesDirtyFrames ==
    [][last'.op = "~BufMgr" =>
          /\ \A i \in DirtyFrames(bufDescTable) :
                Cardinality({n \in DOMAIN last'.ev :
                               /\ last'.ev[n].e = "write"
                               /\ last'.ev[n].frame = i
                               /\ last'.ev[n].file = bufDescTable[i].file
                               /\ last'.ev[n].pageNo = bufDescTable[i].pageNo
                               /\ last'.ev[n].pageNo = bufPool[i].num}) = 1
          /\ \A n \in DOMAIN last'.ev :
                /\ last'.ev[n].e = "write"
                /\ last'.ev[n].frame \in DirtyFrames(bufDescTable)
          /\ Len(last'.ev) = Cardinality(DirtyFrames(bufDescTable))]_vars

\* the destructor has run over a pinned dirty frame, which it wrote, and over
\* a clean valid frame, which it did not
C11_Witness ==
    /\ last.op = "~BufMgr"
    /\ Len(last.ev) = 1
    /\ bufDescTable[last.ev[1].frame].pinCnt > 0
    /\ \E j \in Frames : j # last.ev[1].frame /\ bufDescTable[j].valid

\* C12: between operations every invalid frame has pinCnt = 0, dirty = FALSE
\* and refbit = FALSE (a pinned frame is valid, a dirty frame is valid), so no
\* readPage hit and no unPinPage has changed the pin count, the refbit or the
\* dirty flag of an invalid frame.
C12_InvalidFramesAreClear ==
    \A i \in Frames : ~bufDescTable[i].valid =>
        /\ bufDescTable[i].pinCnt = 0
        /\ ~bufDescTable[i].dirty
        /\ ~bufDescTable[i].refbit

\* C13: no two valid frames hold the same (file, pageNo).
C13_NoPageInTwoFrames ==
    \A i, j \in Frames :
        ( /\ i # j
          /\ bufDescTable[i].valid
          /\ bufDescTable[j].valid )
        => <<bufDescTable[i].file, bufDescTable[i].pageNo>>
              # <<bufDescTable[j].file, bufDescTable[j].pageNo>>

\* a readPage of a resident page has just hit, with every frame valid
C13_Witness ==
    /\ last.op = "readPage"
    /\ last.hit
    /\ \A i \in Frames : bufDescTable[i].valid

\* C14: for every frame, from the load or allocation of a page into it until it
\* is evicted, flushed or disposed, the readPage / allocPage calls that pinned
\* it are as many as its pinCnt plus the unPinPage calls accepted on it: the
\* pins handed out less the unpins accepted (bal) equal pinCnt.
C14_PinBalance ==
    \A i \in Frames : bufDescTable[i].valid => bal[i] = bufDescTable[i].pinCnt

\* an unPinPage has just been accepted on a frame that still holds one pin, so
\* the frame was pinned at least twice and unpinned at least once
C14_Witness ==
    /\ last.op = "unPinPage"
    /\ last.err = "none"
    /\ lookup(hashTable, last.file, last.pageNo)
    /\ bufDescTable[hashTable[<<last.file, last.pageNo>>]].valid
    /\ bufDescTable[hashTable[<<last.file, last.pageNo>>]].pinCnt = 1
    /\ bal[hashTable[<<last.file, last.pageNo>>]] = 1

Takeable(desc, g) ==
    \/ ~desc[g].valid
    \/ (~desc[g].refbit /\ desc[g].pinCnt = 0)

\* C16: if allocBuf is entered with refbit set on frame f while some other
\* frame is invalid or valid with refbit clear and pinCnt = 0, the frame it
\* returns is not f, and all it does to f is clear the refbit.
C16_SecondChance ==
    LET r == allocBuf(bufDescTable, hashTable, clockHand, bufPool) IN
    \A f \in Frames :
        ( /\ bufDescTable[f].refbit
          /\ \E g \in Frames \ {f} : Takeable(bufDescTable, g) )
        => /\ r.out = "frame" => r.frame # f
           /\ r.desc[f] = [bufDescTable[f] EXCEPT !.refbit = r.desc[f].refbit]

\* C17: whenever allocBuf returns a frame, on the fresh-frame path as on the
\* eviction path, the descriptor of that frame is invalid with pinCnt = 0,
\* dirty = FALSE and refbit = FALSE, and no hash table entry points at the
\* frame; the frame becomes valid only by the Set of the caller.
C17_ReturnedFrameIsInvalid ==
    LET r == allocBuf(bufDescTable, hashTable, clockHand, bufPool) IN
    r.out = "frame" =>
        /\ ~r.desc[r.frame].valid
        /\ r.desc[r.frame].pinCnt = 0
        /\ ~r.desc[r.frame].dirty
        /\ ~r.desc[r.frame].refbit
        /\ \A k \in DOMAIN r.ht : r.ht[k] # r.frame

\* C18: allocBuf terminates: entered in any reachable state, it has returned a
\* frame or thrown BufferExceeded after at most 2 * numBufs advances of the
\* clock hand; so has every allocBuf the operations have run.
C18_AllocBufTerminates ==
    LET r == allocBuf(bufDescTable, hashTable, clockHand, bufPool) IN
    /\ r.out \in {"frame", "BufferExceeded"}
    /\ r.adv <= 2 * numBufs
    /\ last.adv <= 2 * numBufs
    /\ last.err # "diverged"
    /\ last.diag # "diverged"

\* allocBuf has just used all 2 * numBufs advances: a first turn that cleared
\* every refbit, a second that counted every frame pinned
C18_Witness ==
    /\ AllocBufThrew(last)
    /\ last.adv = 2 * numBufs

\* C19: allocPage asks the file for the new page before it obtains a frame, so
\* an allocPage that fails with BufferExceeded leaves the file one page larger
\* with no valid frame and no hash table entry for that page; in the pool the
\* failed call has changed nothing but refbits and the clock hand.
C19_FailedAllocPageKeepsTheFilePage ==
    [][(last'.op = "allocPage" /\ last'.err = "BufferExceeded") =>
          /\ Len(last'.ev) >= 1
          /\ last'.ev[1] = Ev("allocate", last'.file, last'.pageNo, numBufs)
          /\ last'.pageNo \notin filePages[last'.file]
          /\ filePages' = [filePages EXCEPT ![last'.file] = @ \cup {last'.pageNo}]
          /\ \A i \in Frames :
                ~( /\ bufDescTable'[i].valid
                   /\ bufDescTable'[i].file = last'.file
                   /\ bufDescTable'[i].pageNo = last'.pageNo )
          /\ ~lookup(hashTable', last'.file, last'.pageNo)
          /\ hashTable' = hashTable
          /\ bufPool' = bufPool
          /\ \A i \in Frames :
                bufDescTable'[i] =
                    [bufDescTable[i] EXCEPT !.refbit = bufDescTable'[i].refbit]]_vars

\* an allocPage has just failed with BufferExceeded and the file holds the
\* page it allocated, which no frame and no hash table entry knows
C19_Witness ==
    /\ last.op = "allocPage"
    /\ last.err = "BufferExceeded"
    /\ last.pageNo \in filePages[last.file]
    /\ ~lookup(hashTable, last.file, last.pageNo)
    /\ AllPinned(bufDescTable)

\* C20: no invalid frame has a file, so flushFile(F) for a file F never fails
\* with BadBuffer: none has, and none started in any reachable state would.
C20_FlushFileNeverBadBuffer ==
    /\ \A i \in Frames : ~bufDescTable[i].valid => bufDescTable[i].file \notin Files
    /\ last.err # "BadBuffer"
    /\ \A F \in Files :
          flushLoop([desc |-> bufDescTable, ht |-> hashTable,
                     ev |-> <<>>, frame |-> numBufs, out |-> "running"],
                    bufPool, F, 0).out # "BadBuffer"

\* flushFile(F) has just returned normally with nothing to flush, past an
\* invalid frame whose slot still holds a page of F
C20_Witness ==
    /\ last.op = "flushFile"
    /\ last.err = "none"
    /\ last.ev = <<>>
    /\ \E i \in Frames : ~bufDescTable[i].valid /\ bufPool[i].src = last.file
====
